---- MODULE Spec2Model ----
(***************************************************************************)
(* SQL execution engine (SQLExec.cpp) over its catalog and storage         *)
(* collaborators.  One action per kind of statement handed to              *)
(* SQLExec::execute; every handler is an operator from the engine state    *)
(* (and the statement) to the new state, the result and the sequence of    *)
(* storage calls it made.  Every storage call may fail: the set F of a     *)
(* statement names the numbers of the storage calls that the storage       *)
(* layer fails during that statement.                                      *)
(***************************************************************************)
EXTENDS Integers, Sequences, FiniteSets

VARIABLES tables, columns, indices, phys, data, idx, stmt, result, calls,
          faults

vars == <<tables, columns, indices, phys, data, idx, stmt, result, calls,
          faults>>

----------------------------------------------------------------------------
(* Bounds of the model *)

\* rows a relation of the catalog may hold for one user table name
MaxRows == 2
\* storage calls the storage layer may fail in one run of the engine
MaxFaults == 2

----------------------------------------------------------------------------
(* Names *)

TablesName == "_tables"
ColumnsName == "_columns"
IndicesName == "_indices"
MetaNames == {TablesName, ColumnsName, IndicesName}
UserNames == {"t", "u"}
IndexNames == {"i", "j"}

\* the engine state as one value
S == [tables |-> tables, columns |-> columns, indices |-> indices,
      phys |-> phys, data |-> data, idx |-> idx]

----------------------------------------------------------------------------
(* Helpers on relations: a relation is a function from its live handles to *)
(* rows; the scan order is the ascending order of the handles.             *)

Min(X) == CHOOSE x \in X : \A y \in X : x <= y

RECURSIVE SortedSeq(_)
SortedSeq(X) == IF X = {} THEN <<>> ELSE <<Min(X)>> \o SortedSeq(X \ {Min(X)})

FreshHandle(rel) == Min((1..(Cardinality(DOMAIN rel) + 1)) \ DOMAIN rel)

Put(rel, h, row) == [g \in DOMAIN rel \cup {h} |-> IF g = h THEN row ELSE rel[g]]

Remove(rel, h) == [g \in DOMAIN rel \ {h} |-> rel[g]]

EmptyRel == [g \in {} |-> 0]

Range(q) == {q[k] : k \in 1..Len(q)}

\* handles of the rows of a catalog relation that carry table_name = t
RowsOf(rel, t) == {h \in DOMAIN rel : rel[h].table_name = t}

\* handles of the _indices rows of index (t, i)
IndexRows(s, t, i) ==
    {h \in DOMAIN s.indices :
        s.indices[h].table_name = t /\ s.indices[h].index_name = i}

----------------------------------------------------------------------------
(* Values and rows *)

\* a 64-bit integer of the parser (Expr::ival) is written <<hi, lo>> and
\* stands for hi * 2^31 + lo, with 0 <= lo < 2^31
Int64(hi, lo) == <<hi, lo>>

\* Value(int32_t n): the integer is narrowed to its low 32 bits, two's
\* complement, (hi * 2^31 + lo) % 2^32 taken into -2^31 .. 2^31 - 1
Int32(iv) == IF iv[1] % 2 = 0 THEN iv[2] ELSE iv[2] - 2^30 - 2^30

IntValue(n) == [data_type |-> "INT", n |-> Int32(n), s |-> ""]

TextValue(str) == [data_type |-> "TEXT", n |-> 0, s |-> str]

----------------------------------------------------------------------------
(* The catalog: Tables and Indices over the relations _tables, _columns    *)
(* and _indices.                                                           *)

\* get_table(t).get_column_names(): the column_name of the _columns rows
\* of t, in scan order
get_column_names(s, t) ==
    LET hs == SortedSeq(RowsOf(s.columns, t))
    IN  [k \in 1..Len(hs) |-> s.columns[hs[k]].column_name]

\* get_table(t).get_column_attributes(): the data_type of the same rows
get_column_attributes(s, t) ==
    LET hs == SortedSeq(RowsOf(s.columns, t))
    IN  [k \in 1..Len(hs) |-> s.columns[hs[k]].data_type]

RECURSIVE DistinctSeq(_)
DistinctSeq(q) ==
    IF q = <<>> THEN <<>>
    ELSE LET init == DistinctSeq(SubSeq(q, 1, Len(q) - 1))
         IN  IF q[Len(q)] \in Range(init) THEN init ELSE Append(init, q[Len(q)])

\* Indices::get_index_names(t): the distinct index names of t, in the scan
\* order of _indices
get_index_names(s, t) ==
    LET hs == SortedSeq(RowsOf(s.indices, t))
    IN  DistinctSeq([k \in 1..Len(hs) |-> s.indices[hs[k]].index_name])

RECURSIVE BySeqInIndex(_, _)
BySeqInIndex(s, hs) ==
    IF hs = {} THEN <<>>
    ELSE LET h == CHOOSE x \in hs : \A y \in hs :
                      \/ s.indices[x].seq_in_index < s.indices[y].seq_in_index
                      \/ /\ s.indices[x].seq_in_index = s.indices[y].seq_in_index
                         /\ x <= y
         IN  <<s.indices[h].column_name>> \o BySeqInIndex(s, hs \ {h})

\* the key columns of index (t, i): the columns recorded in _indices in
\* ascending seq_in_index
KeyColumns(s, t, i) == BySeqInIndex(s, IndexRows(s, t, i))

\* the key of row h of t in index (t, i)
KeyOf(s, t, i, h) ==
    LET kc == KeyColumns(s, t, i)
    IN  [k \in 1..Len(kc) |-> s.data[t][h][kc[k]]]

HasKey(s, t, i, h) ==
    /\ t \in UserNames
    /\ h \in DOMAIN s.data[t]
    /\ Range(KeyColumns(s, t, i)) \subseteq DOMAIN s.data[t][h]

\* DbIndex::lookup(key): the handles the index holds under the key
lookup(s, t, i, key) == {e[2] : e \in {x \in s.idx[<<t, i>>] : x[1] = key}}

\* the rows of relation rel
RelOf(s, rel) ==
    CASE rel = TablesName -> s.tables
      [] rel = ColumnsName -> s.columns
      [] rel = IndicesName -> s.indices
      [] OTHER -> s.data[rel]

WithRel(s, rel, r) ==
    CASE rel = TablesName -> [s EXCEPT !.tables = r]
      [] rel = ColumnsName -> [s EXCEPT !.columns = r]
      [] rel = IndicesName -> [s EXCEPT !.indices = r]
      [] OTHER -> [s EXCEPT !.data[rel] = r]

----------------------------------------------------------------------------
(* Storage calls.  A call is a record [op, rel, idx, h, row, ine]; Works   *)
(* says whether the storage layer can carry it out in state s, Effect is   *)
(* the state it leaves and Returned the handle it returns.                 *)

Call(op, rel, i, h, row, ine) ==
    [op |-> op, rel |-> rel, idx |-> i, h |-> h, row |-> row, ine |-> ine]

NoRow == <<>>

\* DbRelation::insert: a user relation takes a row that supplies exactly
\* its columns
DbRelation_insert_ok(s, c) ==
    /\ c.rel \in s.phys
    /\ c.rel \in UserNames => DOMAIN c.row = Range(get_column_names(s, c.rel))

DbRelation_insert(s, c) ==
    WithRel(s, c.rel, Put(RelOf(s, c.rel), FreshHandle(RelOf(s, c.rel)), c.row))

DbRelation_del_ok(s, c) ==
    /\ c.rel \in s.phys
    /\ c.h \in DOMAIN RelOf(s, c.rel)

DbRelation_del(s, c) == WithRel(s, c.rel, Remove(RelOf(s, c.rel), c.h))

\* DbRelation::create fails on a relation that exists,
\* create_if_not_exists does not
DbRelation_create_ok(s, c) == c.ine \/ c.rel \notin s.phys

DbRelation_create(s, c) ==
    IF c.rel \in s.phys THEN s ELSE [s EXCEPT !.phys = @ \cup {c.rel}]

DbRelation_drop_ok(s, c) == c.rel \in s.phys

DbRelation_drop(s, c) ==
    [WithRel(s, c.rel, EmptyRel) EXCEPT !.phys = @ \ {c.rel}]

\* DbRelation::select(where): a read; the rows of a user relation must
\* carry the columns of the predicate (c.row)
DbRelation_select_ok(s, c) ==
    /\ c.rel \in s.phys
    /\ c.rel \in UserNames =>
          \A h \in DOMAIN s.data[c.rel] : DOMAIN c.row \subseteq DOMAIN s.data[c.rel][h]

\* DbRelation::project(handle, column_names): a read; the row must carry
\* the columns asked for (c.row)
DbRelation_project_ok(s, c) ==
    /\ c.rel \in s.phys
    /\ c.h \in DOMAIN RelOf(s, c.rel)
    /\ c.rel \in UserNames => Range(c.row) \subseteq DOMAIN s.data[c.rel][c.h]

\* DbIndex::create builds the index over the rows the relation holds
DbIndex_create_ok(s, c) ==
    /\ c.rel \in s.phys
    /\ IndicesName \in s.phys
    /\ <<c.rel, c.idx>> \notin DOMAIN s.idx
    /\ \A h \in DOMAIN RelOf(s, c.rel) : HasKey(s, c.rel, c.idx, h)

DbIndex_create(s, c) ==
    LET built == {<<KeyOf(s, c.rel, c.idx, h), h>> : h \in DOMAIN s.data[c.rel]}
    IN  [s EXCEPT !.idx = [p \in DOMAIN @ \cup {<<c.rel, c.idx>>} |->
                              IF p = <<c.rel, c.idx>> THEN built ELSE @[p]]]

DbIndex_drop_ok(s, c) == <<c.rel, c.idx>> \in DOMAIN s.idx

DbIndex_drop(s, c) ==
    [s EXCEPT !.idx = [p \in DOMAIN @ \ {<<c.rel, c.idx>>} |-> @[p]]]

DbIndex_insert_ok(s, c) ==
    /\ <<c.rel, c.idx>> \in DOMAIN s.idx
    /\ HasKey(s, c.rel, c.idx, c.h)

DbIndex_insert(s, c) ==
    [s EXCEPT !.idx[<<c.rel, c.idx>>] =
        @ \cup {<<KeyOf(s, c.rel, c.idx, c.h), c.h>>}]

DbIndex_del_ok(s, c) == <<c.rel, c.idx>> \in DOMAIN s.idx

DbIndex_del(s, c) ==
    [s EXCEPT !.idx[<<c.rel, c.idx>>] = {e \in @ : e[2] # c.h}]

Works(s, c) ==
    CASE c.op = "insert" -> DbRelation_insert_ok(s, c)
      [] c.op = "del" -> DbRelation_del_ok(s, c)
      [] c.op = "create" -> DbRelation_create_ok(s, c)
      [] c.op = "drop" -> DbRelation_drop_ok(s, c)
      [] c.op = "select" -> DbRelation_select_ok(s, c)
      [] c.op = "project" -> DbRelation_project_ok(s, c)
      [] c.op = "get_index_names" -> IndicesName \in s.phys
      [] c.op = "get_index" -> IndicesName \in s.phys
      [] c.op = "index_create" -> DbIndex_create_ok(s, c)
      [] c.op = "index_drop" -> DbIndex_drop_ok(s, c)
      [] c.op = "index_insert" -> DbIndex_insert_ok(s, c)
      [] c.op = "index_del" -> DbIndex_del_ok(s, c)

Effect(s, c) ==
    CASE c.op = "insert" -> DbRelation_insert(s, c)
      [] c.op = "del" -> DbRelation_del(s, c)
      [] c.op = "create" -> DbRelation_create(s, c)
      [] c.op = "drop" -> DbRelation_drop(s, c)
      [] c.op = "index_create" -> DbIndex_create(s, c)
      [] c.op = "index_drop" -> DbIndex_drop(s, c)
      [] c.op = "index_insert" -> DbIndex_insert(s, c)
      [] c.op = "index_del" -> DbIndex_del(s, c)
      [] OTHER -> s

Returned(s, c) == IF c.op = "insert" THEN FreshHandle(RelOf(s, c.rel)) ELSE 0

\* what the log of a statement keeps of a call: the operation, the relation,
\* the index, the handle (passed, or returned by insert) and whether the
\* call succeeded
Logged(s, c, ok) ==
    <<c.op, c.rel, c.idx, IF c.op = "insert" /\ ok THEN Returned(s, c) ELSE c.h, ok>>

(* Run carries out the calls cs one after another from state s; the call   *)
(* numbered base + k fails when F holds its number or the storage layer    *)
(* cannot carry it out, and the first failure ends the run (the exception  *)
(* leaves the block).  rets are the handles the successful calls returned. *)
\* the run of a call that succeeded in state s, followed by the run r of
\* the calls after it
Ran(s, c, r) ==
    [st |-> r.st, ok |-> r.ok, log |-> <<Logged(s, c, TRUE)>> \o r.log,
     rets |-> <<Returned(s, c)>> \o r.rets]

RECURSIVE Run(_, _, _, _)
Run(s, cs, base, F) ==
    IF cs = <<>> THEN [st |-> s, ok |-> TRUE, log |-> <<>>, rets |-> <<>>]
    ELSE IF (base + 1) \in F \/ ~Works(s, Head(cs))
    THEN [st |-> s, ok |-> FALSE, log |-> <<Logged(s, Head(cs), FALSE)>>,
          rets |-> <<>>]
    ELSE Ran(s, Head(cs), Run(Effect(s, Head(cs)), Tail(cs), base + 1, F))

\* the calls cs carried out after the run r: the log goes on, the handles
\* returned are those of the calls cs
Joined(r, next) ==
    [st |-> next.st, ok |-> next.ok, log |-> r.log \o next.log,
     rets |-> next.rets]

Then(r, cs, F) == Joined(r, Run(r.st, cs, Len(r.log), F))

----------------------------------------------------------------------------
(* Results.  A handler ends with a QueryResult or with an exception.       *)

QueryResult(msg) ==
    [thrown |-> FALSE, class |-> "", what |-> <<>>, message |-> msg,
     column_names |-> <<>>, rows |-> <<>>]

TabularResult(names, rows, msg) ==
    [thrown |-> FALSE, class |-> "", what |-> <<>>, message |-> msg,
     column_names |-> names, rows |-> rows]

Throw(class, what) ==
    [thrown |-> TRUE, class |-> class, what |-> what, message |-> <<>>,
     column_names |-> <<>>, rows |-> <<>>]

SQLExecError(what) == Throw("SQLExecError", what)

\* the exception of the storage call that failed last in log
DbRelationError(log) == Throw("DbRelationError", <<log[Len(log)][1]>>)

Outcome(s, log, res) == [st |-> s, log |-> log, res |-> res]

\* the handles the successful insert calls of a run returned
Inserted(r) == SelectSeq(r.rets, LAMBDA h : h # 0)

----------------------------------------------------------------------------
(* CREATE TABLE *)

\* SQLExec::column_definition: the column types CREATE TABLE accepts
column_definition_ok(col) == col.type \in {"INT", "TEXT"}

ColumnsCalls(table_name, cols) ==
    [k \in 1..Len(cols) |->
        Call("insert", ColumnsName, "", 0,
             [table_name |-> table_name, column_name |-> cols[k].name,
              data_type |-> IF cols[k].type = "INT" THEN "INT" ELSE "TEXT"],
             FALSE)]

DelCalls(rel, hs) == [k \in 1..Len(hs) |-> Call("del", rel, "", hs[k], NoRow, FALSE)]

\* a catch block that lets the exception of its own deletions out
Rethrown_last(body, undone) == DbRelationError(undone.log)

\* throw; at the end of a catch block: the exception that entered the
\* block, the one of the run body, whatever the deletions undone met
Rethrown(body, undone) == DbRelationError(body.log)

\* a rollback that leaves the inserted _columns rows in place
undo_columns_none(body) == <<>>

\* the rollback of the _columns rows: one del per handle of c_handles, in
\* the order of c_handles
undo_columns(body) == DelCalls(ColumnsName, Inserted(body))

\* a rollback with one try block around all its deletions: a deletion of
\* a _columns row that fails ends it
undo_create_one_try(body, t_handle, F) ==
    Then(body, undo_columns(body) \o DelCalls(TablesName, <<t_handle>>), F)

\* the two catch blocks of CREATE TABLE, each with a try block of its own
undo_create(body, t_handle, F) ==
    \* attempt to remove from _columns
    Then(Then(body, undo_columns(body), F),
         \* attempt to remove from _tables
         DelCalls(TablesName, <<t_handle>>), F)

create_table(s, st, F) ==
    LET \* the catch blocks have run: body is the run up to the call that
        \* threw, undone the same run with the deletions after it
        caught(body, undone) ==
            Outcome(undone.st, undone.log, Rethrown(body, undone))
        \* the try blocks have run
        tried(t_handle, body) ==
            IF body.ok
            THEN Outcome(body.st, body.log,
                         QueryResult(<<"created", st.tableName>>))
            ELSE caught(body, undo_create(body, t_handle, F))
        \* tables->insert has run
        inserted(t_ins) ==
            IF ~t_ins.ok THEN Outcome(s, t_ins.log, DbRelationError(t_ins.log))
            ELSE tried(t_ins.rets[1],
                       Then(t_ins,
                            ColumnsCalls(st.tableName, st.columns)
                              \o <<Call("create", st.tableName, "", 0, NoRow,
                                        st.ifNotExists)>>,
                            F))
    IN  IF \E k \in 1..Len(st.columns) : ~column_definition_ok(st.columns[k])
        THEN Outcome(s, <<>>, SQLExecError("unrecognized data type"))
        ELSE inserted(Run(s, <<Call("insert", TablesName, "", 0,
                                    [table_name |-> st.tableName], FALSE)>>,
                          0, F))

----------------------------------------------------------------------------
(* DROP TABLE *)

IndexDropCalls(t, names) ==
    [k \in 1..(2 * Len(names)) |->
        IF k % 2 = 1
        THEN Call("get_index", t, names[(k + 1) \div 2], 0, NoRow, FALSE)
        ELSE Call("index_drop", t, names[k \div 2], 0, NoRow, FALSE)]

\* a DROP TABLE that drops the relation first and the indices last
DropSteps_relation_first(s, table_name) ==
    <<Call("drop", table_name, "", 0, NoRow, FALSE)>>
    \o <<Call("select", ColumnsName, "", 0, NoRow, FALSE)>>
    \o DelCalls(ColumnsName, SortedSeq(RowsOf(s.columns, table_name)))
    \o <<Call("select", IndicesName, "", 0, NoRow, FALSE)>>
    \o DelCalls(IndicesName, SortedSeq(RowsOf(s.indices, table_name)))
    \o IndexDropCalls(table_name, get_index_names(s, table_name))
    \o <<Call("select", TablesName, "", 0, NoRow, FALSE)>>

\* the calls of DROP TABLE between get_index_names and the deletion of the
\* _tables row
DropSteps(s, table_name) ==
    \* remove any indices
    IndexDropCalls(table_name, get_index_names(s, table_name))
    \o <<Call("select", IndicesName, "", 0, NoRow, FALSE)>>
    \o DelCalls(IndicesName, SortedSeq(RowsOf(s.indices, table_name)))
    \* remove from _columns schema
    \o <<Call("select", ColumnsName, "", 0, NoRow, FALSE)>>
    \o DelCalls(ColumnsName, SortedSeq(RowsOf(s.columns, table_name)))
    \* remove table
    \o <<Call("drop", table_name, "", 0, NoRow, FALSE)>>
    \* finally, remove from _tables schema
    \o <<Call("select", TablesName, "", 0, NoRow, FALSE)>>

drop_table(s, st, F) ==
    LET table_name == st.name
        deleted(last) ==
            IF last.ok
            THEN Outcome(last.st, last.log, QueryResult(<<"dropped", table_name>>))
            ELSE Outcome(last.st, last.log, DbRelationError(last.log))
        dropped(t_handles, body) ==
            IF ~body.ok
            THEN Outcome(body.st, body.log, DbRelationError(body.log))
            ELSE IF t_handles = <<>>
            THEN \* *handles->begin() of an empty vector
                 Outcome(body.st, body.log,
                         Throw("undefined", <<"begin of empty handles">>))
            ELSE deleted(Then(body, DelCalls(TablesName, <<t_handles[1]>>), F))
        named(names) ==
            IF ~names.ok THEN Outcome(s, names.log, DbRelationError(names.log))
            ELSE dropped(SortedSeq(RowsOf(s.tables, table_name)),
                         Then(names, DropSteps(s, table_name), F))
    IN  IF table_name = TablesName \/ table_name = ColumnsName
        THEN Outcome(s, <<>>, SQLExecError("cannot drop a schema table"))
        ELSE named(Run(s, <<Call("get_index_names", IndicesName, "", 0,
                                 NoRow, FALSE)>>, 0, F))

----------------------------------------------------------------------------
(* CREATE INDEX and DROP INDEX *)

IndicesCalls(st) ==
    [k \in 1..Len(st.indexColumns) |->
        Call("insert", IndicesName, "", 0,
             [table_name |-> st.tableName, index_name |-> st.indexName,
              index_type |-> st.indexType,
              is_unique |-> (st.indexType = "BTREE"),
              seq_in_index |-> k, column_name |-> st.indexColumns[k]],
             FALSE)]

\* a rollback that leaves the inserted _indices rows in place
undo_indices_none(body) == <<>>

\* a rollback that deletes the handles of i_handles from the last to the
\* first
undo_indices_reversed(body) ==
    DelCalls(IndicesName,
             [k \in 1..Len(Inserted(body)) |->
                Inserted(body)[Len(Inserted(body)) + 1 - k]])

\* the rollback of the _indices rows: one del per handle of i_handles, in
\* the order of i_handles
undo_indices(body) == DelCalls(IndicesName, Inserted(body))

create_index(s, st, F) ==
    LET table_columns == get_column_names(s, st.tableName)
        \* the catch block has run: body is the run up to the call that
        \* threw, undone the same run with the deletions after it
        caught(body, undone) ==
            Outcome(undone.st, undone.log, Rethrown(body, undone))
        tried(body) ==
            IF body.ok
            THEN Outcome(body.st, body.log,
                         QueryResult(<<"created index", st.indexName>>))
            ELSE \* attempt to remove from _indices
                 caught(body, Then(body, undo_indices(body), F))
    IN  IF \E k \in 1..Len(st.indexColumns) :
                st.indexColumns[k] \notin Range(table_columns)
        THEN Outcome(s, <<>>, SQLExecError("Column does not exist"))
        ELSE tried(Run(s,
                       IndicesCalls(st)
                         \o <<Call("get_index", st.tableName, st.indexName, 0,
                                   NoRow, FALSE),
                              Call("index_create", st.tableName, st.indexName,
                                   0, NoRow, FALSE)>>,
                       0, F))

\* a DROP INDEX whose where clause names the table only
DropIndexSteps_of_table(s, st) ==
    <<Call("get_index", st.name, st.indexName, 0, NoRow, FALSE),
      Call("index_drop", st.name, st.indexName, 0, NoRow, FALSE),
      Call("select", IndicesName, "", 0, NoRow, FALSE)>>
    \o DelCalls(IndicesName, SortedSeq(RowsOf(s.indices, st.name)))

\* the calls of DROP INDEX: the index is dropped, then the rows of _indices
\* with its table_name and index_name are selected and deleted
DropIndexSteps(s, st) ==
    <<Call("get_index", st.name, st.indexName, 0, NoRow, FALSE),
      Call("index_drop", st.name, st.indexName, 0, NoRow, FALSE),
      Call("select", IndicesName, "", 0, NoRow, FALSE)>>
    \o DelCalls(IndicesName, SortedSeq(IndexRows(s, st.name, st.indexName)))

drop_index(s, st, F) ==
    LET steps == DropIndexSteps(s, st)
        dropped(body) ==
            IF body.ok
            THEN Outcome(body.st, body.log,
                         QueryResult(<<"dropped index", st.indexName>>))
            ELSE Outcome(body.st, body.log, DbRelationError(body.log))
    IN  dropped(Run(s, steps, 0, F))

----------------------------------------------------------------------------
(* INSERT *)

\* a char* that is NULL: the name of an integer literal
NullName == "(null)"

\* get_column_type: the position of the first column of the table that
\* carries the name, 0 when there is none ("unkown column")
\* a lookup that takes the first column of the table for a name the table
\* does not have
get_column_type_first(column, cols) ==
    IF column \in Range(cols)
    THEN Min({k \in 1..Len(cols) : cols[k] = column})
    ELSE IF cols = <<>> THEN 0 ELSE 1

get_column_type(column, cols) ==
    IF column \in Range(cols)
    THEN Min({k \in 1..Len(cols) : cols[k] = column})
    ELSE 0

\* the switch of insert over the declared type of the column: INT reads
\* the ival of the literal and TEXT its name, whatever kind the literal
\* is; a std::string built from a NULL name is undefined behaviour
InsertValue(data_type, lit) ==
    CASE data_type = "INT" -> [class |-> "", value |-> IntValue(lit.ival)]
      [] data_type = "TEXT" ->
             IF lit.name = NullName
             THEN [class |-> "undefined", value |-> TextValue("")]
             ELSE [class |-> "", value |-> TextValue(lit.name)]
      [] OTHER -> [class |-> "SQLExecError", value |-> TextValue("")]

\* an INSERT that takes the n-th column of the table for the n-th value
RowColumn_positional(st, cols, n) == IF n <= Len(cols) THEN cols[n] ELSE st.columns[n]

\* Identifier column = insert_columns[i]: the column the n-th value is for
RowColumn(st, cols, n) == st.columns[n]

\* the ValueDict the loop of insert has built after the first n values;
\* class names the exception that ended the loop, if any
RECURSIVE BuildRow(_, _, _, _)
BuildRow(st, cols, types, n) ==
    LET put(prev, column, pos, v) ==
            IF prev.class # "" THEN prev
            ELSE IF pos = 0
            THEN [class |-> "SQLExecError", what |-> "unkown column",
                  row |-> prev.row]
            ELSE IF v.class = "SQLExecError"
            THEN [class |-> "SQLExecError",
                  what |-> "don't know how to handle data type in INSERT",
                  row |-> prev.row]
            ELSE IF v.class # ""
            THEN [class |-> v.class, what |-> "string from NULL",
                  row |-> prev.row]
            ELSE [class |-> "", what |-> "",
                  row |-> Put(prev.row, column, v.value)]
        typed(prev, column, pos) ==
            put(prev, column, pos, InsertValue(types[pos], st.values[n]))
        named(prev, column) ==
            typed(prev, column, get_column_type(column, cols))
    IN  IF n = 0 THEN [class |-> "", what |-> "", row |-> EmptyRel]
        ELSE named(BuildRow(st, cols, types, n - 1), RowColumn(st, cols, n))

\* the index updates of insert: none
IndexInsertCalls_none(t, names, h) == <<>>

\* for each index name of the table: get the index and insert the handle
IndexInsertCalls(t, names, h) ==
    [k \in 1..(2 * Len(names)) |->
        IF k % 2 = 1
        THEN Call("get_index", t, names[(k + 1) \div 2], 0, NoRow, FALSE)
        ELSE Call("index_insert", t, names[k \div 2], h, NoRow, FALSE)]

insert(s, st, F) ==
    LET table_name == st.tableName
        \* the index updates have run
        updated(index_names, upd) ==
            IF ~upd.ok
            THEN Outcome(upd.st, upd.log, DbRelationError(upd.log))
            ELSE Outcome(upd.st, upd.log,
                         QueryResult(<<"successfully inserted 1 row into",
                                       table_name, Len(index_names)>>))
        \* table.insert and get_index_names have run
        inserted(index_names, ins) ==
            IF ~ins.ok THEN Outcome(ins.st, ins.log, DbRelationError(ins.log))
            ELSE updated(index_names,
                         Then(ins,
                              IndexInsertCalls(table_name, index_names,
                                               ins.rets[1]),
                              F))
        \* the loop over the values has built the row
        built(b) ==
            IF b.class # ""
            THEN Outcome(s, <<>>, Throw(b.class, <<b.what>>))
            ELSE inserted(get_index_names(s, table_name),
                          Run(s, <<Call("insert", table_name, "", 0, b.row,
                                        FALSE),
                                   Call("get_index_names", IndicesName, "", 0,
                                        NoRow, FALSE)>>, 0, F))
    IN  built(BuildRow(st, get_column_names(s, table_name),
                       get_column_attributes(s, table_name), Len(st.values)))

----------------------------------------------------------------------------
(* WHERE: the predicate extractor *)

Expr(type, opType, opChar, name, ival, args) ==
    [type |-> type, opType |-> opType, opChar |-> opChar, name |-> name,
     ival |-> ival, args |-> args]

\* statement->expr == nullptr: no WHERE clause
NullExpr == Expr("nullptr", "", "", NullName, Int64(0, 0), <<>>)

\* a map in which the value inserted last replaces the value of the key
MapInsert_overwrite(m, other) ==
    [c \in DOMAIN m \cup DOMAIN other |->
        IF c \in DOMAIN other THEN other[c] ELSE m[c]]

\* std::map::insert(first, last): a key the map holds keeps its value
MapInsert(m, other) ==
    [c \in DOMAIN m \cup DOMAIN other |-> IF c \in DOMAIN m THEN m[c] ELSE other[c]]

Extracted(class, what, where) == [class |-> class, what |-> what, where |-> where]

\* get_where_conjunction: the conjunction of equality predicates of a
\* parse tree, as a map from column name to value
RECURSIVE get_where_conjunction(_)
get_where_conjunction(expr) ==
    LET both(first, second) ==
            IF first.class # "" THEN first
            ELSE IF second.class # "" THEN second
            ELSE Extracted("", "", MapInsert(MapInsert(EmptyRel, first.where),
                                             second.where))
    IN  \* check if expr is invalid
        IF expr.type # "kExprOperator"
        THEN Extracted("DbRelationError", "Invalid statement", EmptyRel)
        \* find conjunction AND
        ELSE IF expr.opType = "AND"
        THEN both(get_where_conjunction(expr.args[1]),
                  get_where_conjunction(expr.args[2]))
        \* find operator: =
        ELSE IF expr.opChar = "="
        THEN IF Len(expr.args) < 2 \/ expr.args[1].name = NullName
             THEN \* expr->expr2 or expr->expr->name is NULL
                  Extracted("undefined", "NULL read", EmptyRel)
             ELSE IF expr.args[2].type = "kExprLiteralInt"
             THEN Extracted("", "", Put(EmptyRel, expr.args[1].name,
                                        IntValue(expr.args[2].ival)))
             ELSE IF expr.args[2].type = "kExprLiteralString"
             THEN Extracted("", "", Put(EmptyRel, expr.args[1].name,
                                        TextValue(expr.args[2].name)))
             ELSE Extracted("DbRelationError", "Don't know how to handle",
                            EmptyRel)
        \* any other operator: the map stays empty
        ELSE Extracted("", "", EmptyRel)

\* the predicate of a statement: none without a WHERE clause
WhereOf(expr) ==
    IF expr = NullExpr THEN Extracted("", "", EmptyRel)
    ELSE get_where_conjunction(expr)

\* EvalPlan over a table scan with the predicate pushed down: the handles
\* of the rows that carry the values of the predicate, in scan order
Matching(s, t, where) ==
    SortedSeq({h \in DOMAIN RelOf(s, t) :
                 \A c \in DOMAIN where :
                    c \in DOMAIN RelOf(s, t)[h] /\ RelOf(s, t)[h][c] = where[c]})

----------------------------------------------------------------------------
(* DELETE *)

RECURSIVE Flatten(_)
Flatten(qs) == IF qs = <<>> THEN <<>> ELSE Head(qs) \o Flatten(Tail(qs))

\* a DELETE that leaves the indices alone
IndexDelCalls_none(t, names, h) == <<>>

\* for each index name of the table: get the index and delete the handle
IndexDelCalls(t, names, h) ==
    [k \in 1..(2 * Len(names)) |->
        IF k % 2 = 1
        THEN Call("get_index", t, names[(k + 1) \div 2], 0, NoRow, FALSE)
        ELSE Call("index_del", t, names[k \div 2], h, NoRow, FALSE)]

\* a DELETE that removes the row from the table before it updates the
\* indices
DelHandleCalls_table_first(t, names, handles) ==
    Flatten([k \in 1..Len(handles) |->
                <<Call("del", t, "", handles[k], NoRow, FALSE)>>
                  \o IndexDelCalls(t, names, handles[k])])

\* for each handle: delete it from every index, then from the table
DelHandleCalls(t, names, handles) ==
    Flatten([k \in 1..Len(handles) |->
                IndexDelCalls(t, names, handles[k])
                  \o <<Call("del", t, "", handles[k], NoRow, FALSE)>>])

del(s, st, F) ==
    LET tableName == st.tableName
        deleted(index_names, handles, body) ==
            IF body.ok
            THEN Outcome(body.st, body.log,
                         QueryResult(<<"successfully deleted", Len(handles),
                                       tableName,
                                       Len(handles) * Len(index_names)>>))
            ELSE Outcome(body.st, body.log, DbRelationError(body.log))
        scanned(w, index_names, handles) ==
            deleted(index_names, handles,
                    Run(s,
                        <<Call("select", tableName, "", 0, w.where, FALSE),
                          Call("get_index_names", IndicesName, "", 0, NoRow,
                               FALSE)>>
                          \o DelHandleCalls(tableName, index_names, handles),
                        0, F))
        planned(w) ==
            IF w.class # "" THEN Outcome(s, <<>>, Throw(w.class, <<w.what>>))
            ELSE scanned(w, get_index_names(s, tableName),
                         Matching(s, tableName, w.where))
    IN  planned(WhereOf(st.expr))

----------------------------------------------------------------------------
(* SELECT *)

\* the select list with every * replaced by the columns of the table
RECURSIVE Expand(_, _)
Expand(selectList, cols) ==
    IF selectList = <<>> THEN <<>>
    ELSE (IF Head(selectList) = "*" THEN cols ELSE <<Head(selectList)>>)
           \o Expand(Tail(selectList), cols)

\* DbRelation::project: the row of the handle, restricted to the columns
Project(s, t, h, names) == [c \in Range(names) |-> RelOf(s, t)[h][c]]

select(s, st, F) ==
    LET tableName == st.fromTable
        selected(column_names, handles, body) ==
            IF body.ok
            THEN Outcome(s, body.log,
                         TabularResult(column_names,
                                       [k \in 1..Len(handles) |->
                                          Project(s, tableName, handles[k],
                                                  column_names)],
                                       <<"successfully return", Len(handles)>>))
            ELSE Outcome(s, body.log, DbRelationError(body.log))
        scanned(w, column_names, handles) ==
            selected(column_names, handles,
                     Run(s,
                         <<Call("select", tableName, "", 0, w.where, FALSE)>>
                           \o [k \in 1..Len(handles) |->
                                 Call("project", tableName, "", handles[k],
                                      column_names, FALSE)],
                         0, F))
        planned(w) ==
            IF w.class # "" THEN Outcome(s, <<>>, Throw(w.class, <<w.what>>))
            ELSE scanned(w,
                         Expand(st.selectList, get_column_names(s, tableName)),
                         Matching(s, tableName, w.where))
    IN  planned(WhereOf(st.whereClause))

----------------------------------------------------------------------------
(* SHOW *)

\* an unsigned 64-bit integer (u_long) is written as its four 16-bit
\* digits, the most significant first; n is taken modulo 2^64, for
\* -2^16 < n < 2^16
ULong(n) ==
    IF n >= 0 THEN <<0, 0, 0, n>> ELSE <<65535, 65535, 65535, 65536 + n>>

\* the rows a SHOW projects from the handles of a catalog relation
Projected(s, rel, handles, names) ==
    [k \in 1..Len(handles) |-> Project(s, rel, handles[k], names)]

ProjectCalls(rel, handles, names) ==
    [k \in 1..Len(handles) |-> Call("project", rel, "", handles[k], names, FALSE)]

show_tables(s, st, F) ==
    LET column_names == <<"table_name">>
        handles == SortedSeq(DOMAIN s.tables)
        shown(rows, body) ==
            IF body.ok
            THEN Outcome(s, body.log,
                         TabularResult(column_names,
                                       SelectSeq(rows, LAMBDA row :
                                           row.table_name \notin MetaNames),
                                       <<"successfully returned",
                                         ULong(Len(handles) - 3), "rows">>))
            ELSE Outcome(s, body.log, DbRelationError(body.log))
    IN  shown(Projected(s, TablesName, handles, column_names),
              Run(s, <<Call("select", TablesName, "", 0, NoRow, FALSE)>>
                       \o ProjectCalls(TablesName, handles, column_names),
                  0, F))

show_columns(s, st, F) ==
    LET column_names == <<"table_name", "column_name", "data_type">>
        handles == SortedSeq(RowsOf(s.columns, st.tableName))
        shown(rows, body) ==
            IF body.ok
            THEN Outcome(s, body.log,
                         TabularResult(column_names, rows,
                                       <<"successfully returned",
                                         ULong(Len(handles)), "rows">>))
            ELSE Outcome(s, body.log, DbRelationError(body.log))
    IN  shown(Projected(s, ColumnsName, handles, column_names),
              Run(s, <<Call("select", ColumnsName, "", 0, NoRow, FALSE)>>
                       \o ProjectCalls(ColumnsName, handles, column_names),
                  0, F))

show_index(s, st, F) ==
    LET column_names == <<"table_name", "index_name", "column_name",
                          "seq_in_index", "index_type", "is_unique">>
        handles == SortedSeq(RowsOf(s.indices, st.tableName))
        shown(rows, body) ==
            IF body.ok
            THEN Outcome(s, body.log,
                         TabularResult(column_names, rows,
                                       <<"successfully returned",
                                         ULong(Len(handles)), "rows">>))
            ELSE Outcome(s, body.log, DbRelationError(body.log))
    IN  shown(Projected(s, IndicesName, handles, column_names),
              Run(s, <<Call("select", IndicesName, "", 0, NoRow, FALSE)>>
                       \o ProjectCalls(IndicesName, handles, column_names),
                  0, F))

----------------------------------------------------------------------------
(* SQLExec::execute *)

\* an execute without its catch clause
Rewrap_raw(res) == res

\* a DbRelationError leaves execute as an SQLExecError with a prefix
Rewrap(res) ==
    IF res.thrown /\ res.class = "DbRelationError"
    THEN SQLExecError(<<"DbRelationError: ">> \o res.what)
    ELSE res

\* the kind of a statement names its type and, for CREATE, DROP and SHOW,
\* the type of what it creates, drops or shows
create(s, st, F) ==
    CASE st.kind = "create_table" -> create_table(s, st, F)
      [] st.kind = "create_index" -> create_index(s, st, F)
      [] OTHER -> Outcome(s, <<>>, QueryResult(
                      <<"Only CREATE TABLE and CREATE INDEX are implemented">>))

drop(s, st, F) ==
    CASE st.kind = "drop_table" -> drop_table(s, st, F)
      [] st.kind = "drop_index" -> drop_index(s, st, F)
      [] OTHER -> Outcome(s, <<>>, QueryResult(
                      <<"Only DROP TABLE and CREATE INDEX are implemented">>))

\* a SHOW that answers an unknown type with a message
show_message(s, st, F) ==
    CASE st.kind = "show_tables" -> show_tables(s, st, F)
      [] st.kind = "show_columns" -> show_columns(s, st, F)
      [] st.kind = "show_index" -> show_index(s, st, F)
      [] OTHER -> Outcome(s, <<>>, QueryResult(<<"not implemented">>))

show(s, st, F) ==
    CASE st.kind = "show_tables" -> show_tables(s, st, F)
      [] st.kind = "show_columns" -> show_columns(s, st, F)
      [] st.kind = "show_index" -> show_index(s, st, F)
      [] OTHER -> Outcome(s, <<>>, SQLExecError("unrecognized SHOW type"))

\* the statement types of the switch of execute
CreateKinds == {"create_table", "create_index", "create_other"}
DropKinds == {"drop_table", "drop_index", "drop_other"}
ShowKinds == {"show_tables", "show_columns", "show_index", "show_other"}

dispatch(s, st, F) ==
    CASE st.kind \in CreateKinds -> create(s, st, F)
      [] st.kind \in DropKinds -> drop(s, st, F)
      [] st.kind \in ShowKinds -> show(s, st, F)
      [] st.kind = "insert" -> insert(s, st, F)
      [] st.kind = "delete" -> del(s, st, F)
      [] st.kind = "select" -> select(s, st, F)
      [] OTHER -> Outcome(s, <<>>, QueryResult(<<"not implemented">>))

execute(s, st, F) ==
    LET caught(o) == [o EXCEPT !.res = Rewrap(o.res)]
    IN  caught(dispatch(s, st, F))

----------------------------------------------------------------------------
(* The state machine *)

Max(X) == CHOOSE x \in X : \A y \in X : x >= y

\* the calls of statement st that succeed after the last failure of F: the
\* calls the storage layer may fail next
Hits(s, st, F) ==
    LET after(log) == {k \in 1..Len(log) : log[k][5] /\ \A f \in F : k > f}
    IN  after(execute(s, st, F).log)

\* the sets of numbers of the calls of statement st that the storage layer
\* fails: F and its extensions by at most k later failures
RECURSIVE FaultSets(_, _, _, _)
FaultSets(s, st, F, k) ==
    IF k <= 0 THEN {F}
    ELSE {F} \cup UNION {FaultSets(s, st, F \cup {j}, k - 1) : j \in Hits(s, st, F)}

\* the schemas a CREATE TABLE of the model declares
ColumnLists ==
    { <<[name |-> "a", type |-> "INT"]>>,
      <<[name |-> "a", type |-> "INT"], [name |-> "b", type |-> "TEXT"]>>,
      <<[name |-> "b", type |-> "TEXT"], [name |-> "a", type |-> "INT"]>>,
      <<[name |-> "a", type |-> "INT"], [name |-> "b", type |-> "DOUBLE"]>> }

\* literals and expressions as the parser builds them; the ival of a string
\* literal is not initialised and carries whatever the memory held
IntLit(n) == Expr("kExprLiteralInt", "", "", NullName, n, <<>>)
StrLit(str, garbage) == Expr("kExprLiteralString", "", "", str, garbage, <<>>)
ColRef(c) == Expr("kExprColumnRef", "", "", c, Int64(0, 0), <<>>)
Op(opType, opChar, args) ==
    Expr("kExprOperator", opType, opChar, NullName, Int64(0, 0), args)
Eq(l, r) == Op("SIMPLE_OP", "=", <<l, r>>)
And(l, r) == Op("AND", "", <<l, r>>)

One == Int64(0, 1)
MinusOne == Int64(-1, 2^30 + (2^30 - 1))
\* 2^31, the first integer above the 32-bit signed range
Big == Int64(1, 0)

Literals == {IntLit(One), IntLit(Big), StrLit("x", Int64(0, 0)), StrLit("x", Big)}

\* the WHERE clauses of the model: equality conjunctions and the shapes
\* that are none
WhereExprs ==
    { NullExpr,
      Eq(ColRef("a"), IntLit(One)),
      Eq(ColRef("b"), StrLit("x", One)),
      And(Eq(ColRef("a"), IntLit(One)), Eq(ColRef("b"), StrLit("x", One))),
      And(Eq(ColRef("a"), IntLit(One)), Eq(ColRef("a"), IntLit(Big))),
      And(Eq(ColRef("a"), IntLit(One)), Op("SIMPLE_OP", "<", <<ColRef("a"), IntLit(One)>>)),
      Op("SIMPLE_OP", "<", <<ColRef("a"), IntLit(One)>>),
      Op("OR", "", <<Eq(ColRef("a"), IntLit(One)), Eq(ColRef("b"), StrLit("x", One))>>),
      Op("OR", "=", <<Eq(ColRef("a"), IntLit(One)), Eq(ColRef("b"), StrLit("x", One))>>),
      Op("NOT", "", <<Eq(ColRef("a"), IntLit(One))>>),
      Eq(ColRef("a"), ColRef("b")),
      Eq(IntLit(One), IntLit(One)),
      Eq(StrLit("b", One), StrLit("x", One)),
      ColRef("a") }

\* the column lists of the INSERT statements of the model
InsertColumns == {<<"a">>, <<"a", "b">>, <<"b", "a">>, <<"z">>}

\* every column list of the model with every choice of literals
InsertRows ==
    UNION {{<<cols, vals>> : vals \in [1..Len(cols) -> Literals]} :
             cols \in InsertColumns}

\* the select lists of the SELECT statements of the model
SelectLists == {<<"*">>, <<"b">>, <<"a", "z">>}

\* the column lists of the CREATE INDEX statements of the model
IndexColumns == {<<"a">>, <<"b", "a">>, <<"z">>}

MetaColumns ==
    <<  [table_name |-> TablesName, column_name |-> "table_name", data_type |-> "TEXT"],
        [table_name |-> ColumnsName, column_name |-> "table_name", data_type |-> "TEXT"],
        [table_name |-> ColumnsName, column_name |-> "column_name", data_type |-> "TEXT"],
        [table_name |-> ColumnsName, column_name |-> "data_type", data_type |-> "TEXT"],
        [table_name |-> IndicesName, column_name |-> "table_name", data_type |-> "TEXT"],
        [table_name |-> IndicesName, column_name |-> "index_name", data_type |-> "TEXT"],
        [table_name |-> IndicesName, column_name |-> "seq_in_index", data_type |-> "INT"],
        [table_name |-> IndicesName, column_name |-> "column_name", data_type |-> "TEXT"],
        [table_name |-> IndicesName, column_name |-> "index_type", data_type |-> "TEXT"],
        [table_name |-> IndicesName, column_name |-> "is_unique", data_type |-> "BOOLEAN"] >>

NoStmt == [kind |-> "none"]

Init ==
    /\ tables = <<[table_name |-> TablesName], [table_name |-> ColumnsName],
                  [table_name |-> IndicesName]>>
    /\ columns = MetaColumns
    /\ indices = EmptyRel
    /\ phys = MetaNames
    /\ data = [t \in UserNames |-> EmptyRel]
    /\ idx = [p \in {} |-> {}]
    /\ stmt = NoStmt
    /\ result = QueryResult(<<>>)
    /\ calls = <<>>
    /\ faults = 0

\* the catalog relations stay within the bound of the model
Bounded(s) ==
    \A t \in UserNames :
        /\ Cardinality(RowsOf(s.tables, t)) <= MaxRows
        /\ Cardinality(RowsOf(s.columns, t)) <= 2 * MaxRows
        /\ Cardinality(RowsOf(s.indices, t)) <= 2 * MaxRows
        /\ Cardinality(DOMAIN s.data[t]) <= MaxRows

Step(st, F) ==
    \E o \in {execute(S, st, F)} :
        /\ faults + Cardinality(F) <= MaxFaults
        /\ faults' = faults + Cardinality(F)
        /\ Bounded(o.st)
        /\ tables' = o.st.tables
        /\ columns' = o.st.columns
        /\ indices' = o.st.indices
        /\ phys' = o.st.phys
        /\ data' = o.st.data
        /\ idx' = o.st.idx
        /\ stmt' = st
        /\ result' = o.res
        /\ calls' = o.log

\* the sets of calls of statement st that the storage layer may fail: at
\* most k of its calls, and at most MaxFaults calls in the run
Faults(st, k) ==
    FaultSets(S, st, {}, IF k < MaxFaults - faults THEN k
                         ELSE MaxFaults - faults)

\* CREATE TABLE [IF NOT EXISTS] t (cols)
CreateTable(names, lists, ines, k) ==
    \E t \in names, cols \in lists, ine \in ines :
        LET st == [kind |-> "create_table", tableName |-> t, columns |-> cols,
                   ifNotExists |-> ine]
        IN  \E F \in Faults(st, k) : Step(st, F)

\* DROP TABLE t
DropTable(names, k) ==
    \E t \in names :
        LET st == [kind |-> "drop_table", name |-> t]
        IN  \E F \in Faults(st, k) : Step(st, F)

\* CREATE INDEX i ON t USING type (cols)
CreateIndex(names, inames, types, lists, k) ==
    \E t \in names, i \in inames, type \in types, cols \in lists :
        LET st == [kind |-> "create_index", tableName |-> t, indexName |-> i,
                   indexType |-> type, indexColumns |-> cols]
        IN  \E F \in Faults(st, k) : Step(st, F)

\* DROP INDEX i ON t
DropIndex(names, inames, k) ==
    \E t \in names, i \in inames :
        LET st == [kind |-> "drop_index", name |-> t, indexName |-> i]
        IN  \E F \in Faults(st, k) : Step(st, F)

\* INSERT INTO t (cols) VALUES (vals), for <<cols, vals>> in rows
Insert(names, rows, k) ==
    \E t \in names, r \in rows :
        LET st == [kind |-> "insert", tableName |-> t, columns |-> r[1],
                   values |-> r[2]]
        IN  \E F \in Faults(st, k) : Step(st, F)

\* DELETE FROM t [WHERE expr]
Delete(names, exprs, k) ==
    \E t \in names, expr \in exprs :
        LET st == [kind |-> "delete", tableName |-> t, expr |-> expr]
        IN  \E F \in Faults(st, k) : Step(st, F)

\* SELECT list FROM t [WHERE expr]
Select(names, lists, exprs, k) ==
    \E t \in names, list \in lists, expr \in exprs :
        LET st == [kind |-> "select", fromTable |-> t, selectList |-> list,
                   whereClause |-> expr]
        IN  \E F \in Faults(st, k) : Step(st, F)

\* SHOW TABLES
ShowTables(k) ==
    LET st == [kind |-> "show_tables"]
    IN  \E F \in Faults(st, k) : Step(st, F)

\* SHOW COLUMNS FROM t
ShowColumns(names, k) ==
    \E t \in names :
        LET st == [kind |-> "show_columns", tableName |-> t]
        IN  \E F \in Faults(st, k) : Step(st, F)

\* SHOW INDEX FROM t
ShowIndex(names, k) ==
    \E t \in names :
        LET st == [kind |-> "show_index", tableName |-> t]
        IN  \E F \in Faults(st, k) : Step(st, F)

\* the statements the engine does not handle: another statement type,
\* and a CREATE, a DROP or a SHOW of another type
OtherKinds == {"update", "create_other", "drop_other", "show_other"}

Unimplemented(kinds) ==
    \E kind \in kinds :
        LET st == [kind |-> kind]
        IN  \E F \in Faults(st, 0) : Step(st, F)

IndexTypes == {"BTREE", "HASH"}

Next ==
    \/ CreateTable(UserNames, ColumnLists, BOOLEAN, MaxFaults)
    \/ DropTable(UserNames \cup MetaNames, MaxFaults)
    \/ CreateIndex(UserNames, IndexNames, IndexTypes, IndexColumns, MaxFaults)
    \/ DropIndex(UserNames, IndexNames, MaxFaults)
    \/ Insert(UserNames, InsertRows, MaxFaults)
    \/ Delete(UserNames, WhereExprs, MaxFaults)
    \/ Select(UserNames, SelectLists, WhereExprs, MaxFaults)
    \/ ShowTables(MaxFaults)
    \/ ShowColumns(UserNames \cup MetaNames, MaxFaults)
    \/ ShowIndex(UserNames, MaxFaults)
    \/ Unimplemented(OtherKinds)

Spec == Init /\ [][Next]_vars

(* The specifications below take the same steps as Spec from the same      *)
(* initial state, each over the statements that its properties speak of.   *)

\* CREATE TABLE and DROP TABLE of one user table
NextTables ==
    \/ CreateTable({"t"}, ColumnLists, BOOLEAN, MaxFaults)
    \/ DropTable({"t"}, MaxFaults)

SpecTables == Init /\ [][NextTables]_vars

\* DROP TABLE of any relation, the meta-relations among them
NextMeta ==
    \/ CreateTable({"t"}, ColumnLists, BOOLEAN, 0)
    \/ DropTable({"t"} \cup MetaNames, 1)

SpecMeta == Init /\ [][NextMeta]_vars

TwoColumns ==
    { <<[name |-> "a", type |-> "INT"], [name |-> "b", type |-> "TEXT"]>>,
      <<[name |-> "b", type |-> "TEXT"], [name |-> "a", type |-> "INT"]>> }

\* the rows of one table: INSERT, DELETE and SELECT, the storage layer
\* failing no call
NextRows ==
    \/ CreateTable({"t"}, TwoColumns, {FALSE}, 0)
    \/ Insert({"t"}, InsertRows, 0)
    \/ Delete({"t"}, WhereExprs, 0)
    \/ Select({"t"}, {<<"*">>}, WhereExprs, 0)

SpecRows == Init /\ [][NextRows]_vars

\* the indices of one table under INSERT and DELETE
NextIndexed ==
    \/ CreateTable({"t"}, {<<[name |-> "a", type |-> "INT"],
                            [name |-> "b", type |-> "TEXT"]>>}, {FALSE}, 0)
    \/ CreateIndex({"t"}, IndexNames, {"BTREE"}, {<<"a">>, <<"z">>}, MaxFaults)
    \/ Insert({"t"}, {<<(<<"b", "a">>), <<StrLit("x", One), IntLit(One)>> >>,
                      <<(<<"a", "b">>), <<IntLit(Big), StrLit("x", One)>> >>},
              MaxFaults)
    \/ Delete({"t"}, {NullExpr, Eq(ColRef("a"), IntLit(One))}, MaxFaults)

SpecIndexed == Init /\ [][NextIndexed]_vars

\* the WHERE clauses of the DELETE statements of SpecDelete: conjunctions
\* of equalities
DeleteExprs ==
    { NullExpr,
      Eq(ColRef("a"), IntLit(One)),
      Eq(ColRef("a"), IntLit(Big)),
      Eq(ColRef("b"), StrLit("x", One)),
      And(Eq(ColRef("a"), IntLit(One)), Eq(ColRef("b"), StrLit("x", One))),
      And(Eq(ColRef("a"), IntLit(One)), Eq(ColRef("a"), IntLit(Big))),
      And(Eq(ColRef("a"), IntLit(Big)), Eq(ColRef("a"), IntLit(One))) }

\* the rows of one indexed table under DELETE, the storage layer failing no
\* call
NextDelete ==
    \/ CreateTable({"t"}, {<<[name |-> "a", type |-> "INT"],
                            [name |-> "b", type |-> "TEXT"]>>}, {FALSE}, 0)
    \/ CreateIndex({"t"}, IndexNames, {"BTREE"}, {<<"a">>, <<"b", "a">>}, 0)
    \/ Insert({"t"}, {<<(<<"b", "a">>), <<StrLit("x", One), IntLit(One)>> >>,
                      <<(<<"a", "b">>), <<IntLit(Big), StrLit("x", One)>> >>,
                      <<(<<"a", "b">>), <<IntLit(MinusOne), StrLit("y", One)>> >>},
              0)
    \/ Delete({"t"}, DeleteExprs, 0)

SpecDelete == Init /\ [][NextDelete]_vars

\* tables with one index at most, dropped and listed
NextDrop ==
    \/ CreateTable(UserNames, {<<[name |-> "a", type |-> "INT"]>>}, BOOLEAN, 0)
    \/ CreateIndex(UserNames, {"i"}, {"BTREE"}, {<<"a">>}, 0)
    \/ DropTable(UserNames \cup {IndicesName}, 0)
    \/ ShowTables(0)

SpecDrop == Init /\ [][NextDrop]_vars

\* indices of both types, i over one column and j over two, created and
\* dropped
NextIndex ==
    \/ CreateTable({"t"}, {<<[name |-> "a", type |-> "INT"],
                            [name |-> "b", type |-> "TEXT"]>>}, {FALSE}, 0)
    \/ CreateIndex({"t"}, {"i"}, {"BTREE", "HASH"}, {<<"a">>}, MaxFaults)
    \/ CreateIndex({"t"}, {"j"}, {"BTREE", "HASH"}, {<<"b", "a">>}, MaxFaults)
    \/ DropIndex({"t"}, IndexNames, MaxFaults)
    \/ DropTable({"t", IndicesName}, 0)

SpecIndex == Init /\ [][NextIndex]_vars

\* the SHOW statements over tables created and dropped
NextShow ==
    \/ CreateTable(UserNames, {<<[name |-> "a", type |-> "INT"]>>}, BOOLEAN, 0)
    \/ CreateIndex({"t"}, {"i"}, {"BTREE"}, {<<"a">>}, 0)
    \/ DropTable(UserNames \cup {IndicesName}, 0)
    \/ ShowTables(0)
    \/ ShowColumns({"t"}, 0)
    \/ ShowIndex({"t"}, 0)

SpecShow == Init /\ [][NextShow]_vars

\* every kind of statement on one table of two columns with one index, the
\* storage layer failing calls of any of them
NextFaults ==
    \/ CreateTable({"t"}, {<<[name |-> "a", type |-> "INT"],
                            [name |-> "b", type |-> "TEXT"]>>}, {FALSE},
                   MaxFaults)
    \/ CreateIndex({"t"}, {"i"}, {"BTREE"}, {<<"b", "a">>}, MaxFaults)
    \/ DropIndex({"t"}, {"i"}, 1)
    \/ DropTable({"t"}, 1)
    \/ Insert({"t"}, {<<(<<"a", "b">>), <<IntLit(One), StrLit("x", One)>> >>}, 1)
    \/ Delete({"t"}, {NullExpr}, 1)
    \/ Select({"t"}, {<<"*">>}, {NullExpr}, 1)
    \/ ShowTables(1)
    \/ ShowColumns({"t"}, 1)
    \/ ShowIndex({"t"}, 1)
    \/ Unimplemented(OtherKinds)

SpecFaults == Init /\ [][NextFaults]_vars

\* the INSERT statements of SpecInsert: a row of t, a column t does not
\* have listed first or second, and a row of _indices with its BOOLEAN column
RowsListed ==
    { <<(<<"a", "b">>), <<IntLit(One), StrLit("x", One)>> >>,
      <<(<<"b", "a">>), <<StrLit("y", One), IntLit(Big)>> >>,
      <<(<<"a", "z">>), <<IntLit(One), StrLit("x", One)>> >>,
      <<(<<"z">>), <<IntLit(One)>> >> }

IndicesRowsListed ==
    { <<(<<"table_name", "is_unique">>), <<StrLit("t", One), IntLit(One)>> >>,
      <<(<<"is_unique", "seq_in_index">>), <<IntLit(One), IntLit(One)>> >> }

\* INSERT statements that name columns, with an index on the table
NextInsert ==
    \/ CreateTable({"t"}, {<<[name |-> "a", type |-> "INT"],
                            [name |-> "b", type |-> "TEXT"]>>}, {FALSE}, 0)
    \/ CreateIndex({"t"}, {"i"}, {"BTREE"}, {<<"a">>}, 0)
    \/ Insert({"t"}, RowsListed, 1)
    \/ Insert({IndicesName}, IndicesRowsListed, 0)
    \/ Delete({"t"}, {NullExpr, Eq(ColRef("a"), IntLit(One))}, 0)
    \/ DropTable({"t"}, 0)

SpecInsert == Init /\ [][NextInsert]_vars

\* two tables, one index on each and a second one on t: DROP INDEX with
\* other indices in place
NextDropIndex ==
    \/ CreateTable(UserNames, {<<[name |-> "a", type |-> "INT"],
                                 [name |-> "b", type |-> "TEXT"]>>}, {FALSE}, 0)
    \/ CreateIndex(UserNames, {"i"}, {"BTREE"}, {<<"a">>}, 0)
    \/ CreateIndex({"t"}, {"j"}, {"HASH"}, {<<"b", "a">>}, 0)
    \/ Insert({"t"}, {<<(<<"a", "b">>), <<IntLit(One), StrLit("x", One)>> >>}, 0)
    \/ DropIndex(UserNames, IndexNames, 0)

SpecDropIndex == Init /\ [][NextDropIndex]_vars

----------------------------------------------------------------------------
(* Properties *)

\* the statement of the step just taken failed
Failed(kind) == stmt.kind = kind /\ result.thrown

\* the storage layer failed no deletion during the statement
NoDelFailed(log) == \A k \in 1..Len(log) : log[k][1] = "del" => log[k][5]

\* some call op on relation rel of the statement succeeded
Did(log, op, rel) == \E k \in 1..Len(log) :
    log[k][1] = op /\ log[k][2] = rel /\ log[k][5]

C3_CatalogAgrees ==
    \A t \in UserNames :
        /\ (Cardinality(RowsOf(tables, t)) = 1) <=> (RowsOf(columns, t) # {})
        /\ (RowsOf(columns, t) # {}) <=> (t \in phys)

\* C5 as stated: DROP TABLE of a meta-relation is rejected and changes no
\* catalog relation, no physical relation and no index.
C5_DropMetaRejected ==
    [][(stmt'.kind = "drop_table" /\ stmt'.name \in MetaNames)
          => /\ result'.thrown
             /\ UNCHANGED <<tables, columns, indices, phys, data, idx>>]_vars

HandlesIn(t, i) == {e[2] : e \in idx[<<t, i>>]}

\* C4 as stated: after every statement, every index on a user table (an
\* index of the catalog whose physical index exists) holds the handle of
\* every live row of the table and of no other row.
C4_IndexHoldsLiveRows ==
    \A t \in UserNames : \A i \in Range(get_index_names(S, t)) :
        <<t, i>> \in DOMAIN idx => HandlesIn(t, i) = DOMAIN data[t]

\* the WHERE expressions the predicate extractor is specified to accept:
\* a conjunction (AND) of column = integer-or-string-literal terms
RECURSIVE IsEqualityConjunction(_)
IsEqualityConjunction(e) ==
    /\ e.type = "kExprOperator"
    /\ \/ /\ e.opType = "AND"
          /\ Len(e.args) = 2
          /\ IsEqualityConjunction(e.args[1])
          /\ IsEqualityConjunction(e.args[2])
       \/ /\ e.opType = "SIMPLE_OP" /\ e.opChar = "="
          /\ Len(e.args) = 2
          /\ e.args[1].type = "kExprColumnRef"
          /\ e.args[2].type \in {"kExprLiteralInt", "kExprLiteralString"}

WhereClauseOf(st) ==
    IF st.kind = "delete" THEN st.expr
    ELSE IF st.kind = "select" THEN st.whereClause
    ELSE NullExpr

\* C6 as stated: a DELETE or SELECT whose WHERE clause is no conjunction of
\* column = literal terms fails, and deletes no row.
C6_OtherShapesRejected ==
    [][(/\ WhereClauseOf(stmt') # NullExpr
        /\ ~IsEqualityConjunction(WhereClauseOf(stmt')))
          => (result'.thrown /\ data' = data)]_vars

\* some value of the INSERT is of another kind than the declared type of
\* its column
TypeMismatch(s, st) ==
    \E k \in 1..Len(st.values) :
        LET names == get_column_names(s, st.tableName)
            types == get_column_attributes(s, st.tableName)
            pos == get_column_type(st.columns[k], names)
        IN  /\ pos # 0
            /\ \/ types[pos] = "INT" /\ st.values[k].type # "kExprLiteralInt"
               \/ types[pos] = "TEXT" /\ st.values[k].type # "kExprLiteralString"

\* C7 as stated: an INSERT that supplies, for a column, a literal of
\* another kind than the declared type of the column fails (with "don't
\* know how to handle data type in INSERT"), and adds no row.
C7_InsertValidatesTypes ==
    [][(stmt'.kind = "insert" /\ TypeMismatch(S, stmt'))
          => (result'.thrown /\ data' = data)]_vars

\* C8 as stated: a CREATE TABLE IF NOT EXISTS that succeeded succeeds
\* again when it is repeated, and leaves _tables, _columns and the set of
\* physical relations as the first call left them.
C8_CreateIfNotExistsIdempotent ==
    (stmt.kind = "create_table" /\ stmt.ifNotExists /\ ~result.thrown)
        => LET again == execute(S, stmt, {})
           IN  /\ ~again.res.thrown
               /\ again.st.tables = tables
               /\ again.st.columns = columns
               /\ again.st.phys = phys

\* no relation of the catalog knows the table name
Fresh(t) ==
    /\ RowsOf(tables, t) = {} /\ RowsOf(columns, t) = {}
    /\ RowsOf(indices, t) = {} /\ t \notin phys
    /\ MetaNames \subseteq phys

Orders(n) == {p \in [1..n -> 1..n] : \A j, k \in 1..n : p[j] = p[k] => j = k}

\* the literals that match a declared type
Matching32 == {One, MinusOne}
Matching64 == {One, MinusOne, Big}
MatchingLiterals(type, ints) ==
    IF type = "INT" THEN {IntLit(iv) : iv \in ints}
    ELSE {StrLit("x", One), StrLit("y", Big)}

\* the stored value is the value the literal supplied
Supplied(lit, v) ==
    IF lit.type = "kExprLiteralInt"
    THEN /\ v.data_type = "INT"
         /\ \/ lit.ival[1] = 0 /\ v.n = lit.ival[2]
            \/ lit.ival[1] = -1 /\ v.n = lit.ival[2] - 2^30 - 2^30
    ELSE v.data_type = "TEXT" /\ v.s = lit.name

\* CREATE TABLE t (cols); INSERT INTO t (cols in the order p) VALUES (the
\* literals lits of the columns, in the order p); SELECT * FROM t, from the
\* current state: every statement succeeds and the SELECT returns the
\* columns in declared order and one row, which maps every column to the
\* value supplied for it
RoundTrip(t, cols, p, lits) ==
    LET n == Len(cols)
        c == execute(S, [kind |-> "create_table", tableName |-> t,
                         columns |-> cols, ifNotExists |-> FALSE], {})
        i == execute(c.st, [kind |-> "insert", tableName |-> t,
                            columns |-> [k \in 1..n |-> cols[p[k]].name],
                            values |-> [k \in 1..n |-> lits[p[k]]]], {})
        r == execute(i.st, [kind |-> "select", fromTable |-> t,
                            selectList |-> <<"*">>,
                            whereClause |-> NullExpr], {})
    IN  /\ ~c.res.thrown /\ ~i.res.thrown /\ ~r.res.thrown
        /\ r.res.column_names = [k \in 1..n |-> cols[k].name]
        /\ Len(r.res.rows) = 1
        /\ DOMAIN r.res.rows[1] = {cols[k].name : k \in 1..n}
        /\ \A k \in 1..n : Supplied(lits[k], r.res.rows[1][cols[k].name])

RoundTrips(ints) ==
    \A t \in UserNames : Fresh(t) =>
        \A cols \in TwoColumns : \A p \in Orders(Len(cols)) :
            \A lits \in [1..Len(cols) -> UNION {MatchingLiterals(ty, ints) : ty \in {"INT", "TEXT"}}] :
                (\A k \in 1..Len(cols) :
                    lits[k] \in MatchingLiterals(cols[k].type, ints))
                    => RoundTrip(t, cols, p, lits)

\* C9 as stated: CREATE TABLE, one INSERT that lists the columns in any
\* order with a matching literal for each, and SELECT * return one row with
\* the value supplied for every column, the columns in declared order.
C9_RoundTrip == RoundTrips(Matching64)

\* C9 amended: the same, for integer literals within the signed 32-bit
\* range.
C9_RoundTrip32 == RoundTrips(Matching32)

\* SELECT * returned the one row of a table declared (b, a), which an
\* INSERT had supplied in the order (a, b)
C9_Witness ==
    /\ stmt.kind = "select" /\ ~result.thrown
    /\ stmt.selectList = <<"*">> /\ stmt.whereClause = NullExpr
    /\ result.column_names = <<"b", "a">>
    /\ Len(result.rows) = 1
    /\ result.rows[1]["a"].n = 1 /\ result.rows[1]["b"].s = "x"
    /\ Fresh("u")

\* C10: after a successful INSERT that returned handle h, every index the
\* catalog records for the table holds h under the key of the inserted row.
C10_InsertReachesEveryIndex ==
    (stmt.kind = "insert" /\ ~result.thrown)
        => LET t == stmt.tableName
               h == calls[1][4]
           IN  /\ h \in DOMAIN data[t]
               /\ \A i \in Range(get_index_names(S, t)) :
                     /\ <<t, i>> \in DOMAIN idx
                     /\ h \in lookup(S, t, i, KeyOf(S, t, i, h))

\* an INSERT succeeded on a table with two indices
C10_Witness ==
    /\ stmt.kind = "insert" /\ ~result.thrown
    /\ Len(get_index_names(S, stmt.tableName)) = 2

\* the value the row holds for the column of an equality is the literal
RECURSIVE Satisfies(_, _)
Satisfies(row, e) ==
    IF e.opType = "AND"
    THEN Satisfies(row, e.args[1]) /\ Satisfies(row, e.args[2])
    ELSE /\ e.args[1].name \in DOMAIN row
         /\ Supplied(e.args[2], row[e.args[1].name])

\* the row matches the WHERE clause (every row when there is none)
Matched(row, e) == e = NullExpr \/ Satisfies(row, e)

\* the equalities of a conjunction, left to right
RECURSIVE Terms(_)
Terms(e) ==
    IF e.opType = "AND" THEN Terms(e.args[1]) \o Terms(e.args[2]) ELSE <<e>>

\* a conjunction of equalities that names no column twice and whose integer
\* literals lie within the signed 32-bit range
PlainConjunction(e) ==
    /\ IsEqualityConjunction(e)
    /\ \A j, k \in 1..Len(Terms(e)) :
          Terms(e)[j].args[1].name = Terms(e)[k].args[1].name => j = k
    /\ \A k \in 1..Len(Terms(e)) :
          Terms(e)[k].args[2].type = "kExprLiteralInt"
              => Terms(e)[k].args[2].ival[1] \in {0, -1}

\* the step deleted from table t the rows that match e, from the table and
\* from every index on it, and left every other row and index entry alone
DeletedMatching(t, e) ==
    /\ DOMAIN data'[t] = {h \in DOMAIN data[t] : ~Matched(data[t][h], e)}
    /\ \A h \in DOMAIN data'[t] : data'[t][h] = data[t][h]
    /\ \A i \in Range(get_index_names(S, t)) :
          /\ <<t, i>> \in DOMAIN idx /\ <<t, i>> \in DOMAIN idx'
          /\ idx'[<<t, i>>] = {x \in idx[<<t, i>>] : x[2] \in DOMAIN data'[t]}

\* C11 as stated: a successful DELETE FROM T [WHERE p], p a conjunction of
\* equalities, removes the rows of T that match p from T and from every
\* index on T, and leaves every other row in T and in every index on T.
C11_DeleteRemovesMatching ==
    [][(/\ stmt'.kind = "delete" /\ ~result'.thrown
        /\ stmt'.expr = NullExpr \/ IsEqualityConjunction(stmt'.expr))
          => DeletedMatching(stmt'.tableName, stmt'.expr)]_vars

\* C11 amended: the same, for a conjunction that names no column twice and
\* whose integer literals lie within the signed 32-bit range.
C11_DeleteRemovesMatchingPlain ==
    [][(/\ stmt'.kind = "delete" /\ ~result'.thrown
        /\ stmt'.expr = NullExpr \/ PlainConjunction(stmt'.expr))
          => DeletedMatching(stmt'.tableName, stmt'.expr)]_vars

\* a DELETE with a WHERE clause succeeded on a table with two indices,
\* removed a row and left another
C11_Witness ==
    /\ stmt.kind = "delete" /\ ~result.thrown
    /\ stmt.expr # NullExpr /\ PlainConjunction(stmt.expr)
    /\ result.message[2] = 1
    /\ data["t"] # EmptyRel
    /\ Len(get_index_names(S, "t")) = 2
    /\ \A i \in IndexNames : <<"t", i>> \in DOMAIN idx


\* the statement just executed is a successful DROP TABLE t
Dropped(t) ==
    /\ stmt'.kind = "drop_table"
    /\ stmt'.name = t
    /\ ~result'.thrown

\* the catalog rows and the physical objects of table u are those of before
Untouched(u) ==
    /\ \A rel \in MetaNames :
          /\ RowsOf(RelOf(S, rel)', u) = RowsOf(RelOf(S, rel), u)
          /\ \A h \in RowsOf(RelOf(S, rel), u) : RelOf(S, rel)'[h] = RelOf(S, rel)[h]
    /\ (u \in phys') = (u \in phys)
    /\ u \in UserNames => data'[u] = data[u]
    /\ \A i \in IndexNames :
          /\ (<<u, i>> \in DOMAIN idx') = (<<u, i>> \in DOMAIN idx)
          /\ <<u, i>> \in DOMAIN idx => idx'[<<u, i>>] = idx[<<u, i>>]

\* the names SHOW TABLES lists in state s
Listed(s) ==
    LET o == show_tables(s, [kind |-> "show_tables"], {})
    IN  {o.res.rows[k].table_name : k \in 1..Len(o.res.rows)}

\* table t is gone from the catalog and from the storage layer
Gone(t) ==
    /\ RowsOf(tables', t) = {}
    /\ RowsOf(columns', t) = {}
    /\ RowsOf(indices', t) = {}
    /\ t \notin phys'
    /\ \A i \in IndexNames : <<t, i>> \notin DOMAIN idx'
    /\ t \notin Listed(S')

\* C12: after a successful DROP TABLE T, _tables, _columns and _indices
\* have no row for T, the relation of T and the indices that were on T no
\* longer exist, SHOW TABLES no longer lists T, and the catalog rows and
\* physical objects of every other table are unchanged.
C12_DropTableRemovesAll ==
    [][\A t \in UserNames \cup {IndicesName} :
          Dropped(t) =>
              /\ Gone(t)
              /\ \A u \in (UserNames \cup MetaNames) \ {t} : Untouched(u)]_vars

\* the statement just executed is a successful CREATE INDEX
CreatedIndex ==
    /\ stmt'.kind = "create_index"
    /\ ~result'.thrown

\* the _indices rows of index (t, i) in state s: n rows numbered 1..n,
\* with one index_type and one is_unique, true exactly for a BTREE
WellShaped(s, t, i) ==
    LET rows == {s.indices[h] : h \in IndexRows(s, t, i)}
        n == Cardinality(IndexRows(s, t, i))
    IN  /\ n >= 1
        /\ {row.seq_in_index : row \in rows} = 1..n
        /\ \A r1, r2 \in rows :
              /\ r1.index_type = r2.index_type
              /\ r1.is_unique = r2.is_unique
        /\ \A row \in rows : row.is_unique = (row.index_type = "BTREE")

\* the _indices rows of index (t, i) number the columns cols in their order
InListedOrder(s, t, i, cols) ==
    /\ Cardinality(IndexRows(s, t, i)) = Len(cols)
    /\ \A k \in 1..Len(cols) :
          \E h \in IndexRows(s, t, i) :
              /\ s.indices[h].seq_in_index = k
              /\ s.indices[h].column_name = cols[k]

\* C13: after any sequence of statements, every index (T, I) created by a
\* successful CREATE INDEX over n columns and not yet dropped has exactly
\* n rows in _indices, numbered 1..n in the order the columns were listed,
\* all with the same index_type and is_unique, and is_unique is true
\* exactly when index_type is "BTREE".
C13_IndexRowsShaped ==
    [][/\ CreatedIndex =>
             InListedOrder(S', stmt'.tableName, stmt'.indexName,
                           stmt'.indexColumns)
       /\ \A p \in DOMAIN idx' : WellShaped(S', p[1], p[2])]_vars

\* the positions of the del calls in log
Dels(log) == {k \in 1..Len(log) : log[k][1] = "del"}

\* the position in log of the insert call that returned the handle that
\* the del call at position k deletes
InsertOf(log, k) ==
    CHOOSE n \in 1..Len(log) :
        /\ log[n][1] = "insert"
        /\ log[n][2] = log[k][2]
        /\ log[n][4] = log[k][4]
        /\ log[n][5]

FailedCalls(log) == {k \in 1..Len(log) : ~log[k][5]}

\* a deletion of the rollback of the statement failed
RollbackFailed ==
    /\ Failed("create_table") \/ Failed("create_index")
    /\ \E k \in FailedCalls(calls) : calls[k][1] = "del"

\* C15: when a CREATE TABLE or CREATE INDEX fails and a deletion of its
\* rollback fails too, the rollback failure is swallowed (the rollback of
\* CREATE TABLE goes on to the _tables row) and the error that reaches the
\* caller is the original failure, never the rollback failure.
C15_OriginalErrorWins ==
    RollbackFailed =>
        /\ calls[Min(FailedCalls(calls))][1] # "del"
        /\ result.class = "SQLExecError"
        /\ result.what = <<"DbRelationError: ", calls[Min(FailedCalls(calls))][1]>>
        /\ stmt.kind = "create_table" =>
              calls[Len(calls)][1] = "del" /\ calls[Len(calls)][2] = TablesName

\* the creation of the relation fails and so does the deletion of a
\* _columns row of the rollback
C15_Witness ==
    /\ Failed("create_table")
    /\ \E k \in FailedCalls(calls) : calls[k][1] = "create"
    /\ \E k \in FailedCalls(calls) :
          calls[k][1] = "del" /\ calls[k][2] = ColumnsName

\* the result is a message and nothing else
MessageOnly(res) ==
    /\ ~res.thrown
    /\ res.message # <<>>
    /\ res.column_names = <<>>
    /\ res.rows = <<>>

\* C16 as stated: for every statement kind or sub-kind the engine does not
\* handle, execute returns a message-only result, raises no error and
\* changes no catalog or table state.
C16_UnimplementedReturnsMessage ==
    [][stmt'.kind \in OtherKinds => (MessageOnly(result') /\ S' = S)]_vars

\* C16 with the SHOW of an unknown type set apart: it raises the execution
\* error "unrecognized SHOW type"; every other statement the engine does not
\* handle returns a message-only result; none changes the state.
C16_UnimplementedReturnsMessageOrShowError ==
    [][stmt'.kind \in OtherKinds =>
          /\ S' = S
          /\ calls' = <<>>
          /\ IF stmt'.kind = "show_other"
             THEN result' = SQLExecError("unrecognized SHOW type")
             ELSE MessageOnly(result')]_vars

\* a CREATE of another type is executed while a table and an index exist
C16_Witness ==
    /\ stmt.kind = "create_other"
    /\ MessageOnly(result)
    /\ "t" \in phys
    /\ indices # EmptyRel

\* the names of the rows of a tabular result
TableNames(res) == [k \in 1..Len(res.rows) |-> res.rows[k].table_name]

\* C17: after any sequence of successful statements, SHOW TABLES returns
\* exactly one row per existing user table and none for the three
\* meta-tables, and the row count in its message equals the number of rows
\* it returns.
C17_ShowTablesListsUserTables ==
    (stmt.kind = "show_tables" /\ ~result.thrown) =>
        /\ \A t \in UserNames :
              Cardinality({k \in 1..Len(result.rows) :
                              TableNames(result)[k] = t})
                = IF t \in phys THEN 1 ELSE 0
        /\ \A k \in 1..Len(result.rows) : TableNames(result)[k] \notin MetaNames
        /\ result.message =
              <<"successfully returned", ULong(Len(result.rows)), "rows">>

\* e is c = v1 AND c = v2, two equalities on one column with integer
\* literals of different values
TwoOnOne(e) ==
    /\ e.type = "kExprOperator" /\ e.opType = "AND"
    /\ \A k \in 1..2 :
          /\ e.args[k].type = "kExprOperator"
          /\ e.args[k].opChar = "="
          /\ e.args[k].args[2].type = "kExprLiteralInt"
    /\ e.args[1].args[1].name = e.args[2].args[1].name
    /\ IntValue(e.args[1].args[2].ival) # IntValue(e.args[2].args[2].ival)

\* the value the predicate map of the WHERE clause e binds its column to
Bound(e) == get_where_conjunction(e).where[e.args[1].args[1].name]

\* C18 as stated: when a WHERE conjunction holds two equalities on the
\* same column with different values (c = v1 AND c = v2), the predicate
\* map of the extractor binds c to the later value v2.
C18_LaterValueWins ==
    (stmt.kind = "delete" /\ TwoOnOne(stmt.expr)) =>
        Bound(stmt.expr) = IntValue(stmt.expr.args[2].args[2].ival)

\* C18 as the code builds the map: for c = v1 AND c = v2 with different
\* values the predicate map binds c to the earlier value v1.
C18_EarlierValueWins ==
    (stmt.kind = "delete" /\ TwoOnOne(stmt.expr)) =>
        /\ get_where_conjunction(stmt.expr).class = ""
        /\ DOMAIN get_where_conjunction(stmt.expr).where
              = {stmt.expr.args[1].args[1].name}
        /\ Bound(stmt.expr) = IntValue(stmt.expr.args[1].args[2].ival)

\* DELETE FROM t WHERE a = 1 AND a = 2147483648 has deleted the row a = 1
C18_Witness ==
    /\ stmt.kind = "delete" /\ ~result.thrown
    /\ TwoOnOne(stmt.expr)
    /\ stmt.expr.args[1].args[2].ival = One
    /\ result.message[2] = 1

\* C19: every storage failure raised by a Relation or Index operation
\* during a statement reaches the caller of execute as an execution error
\* whose message is "DbRelationError: " followed by the message of the
\* storage error (here the operation that failed first); a raw storage
\* error never leaves execute, also after the rollback of a DDL statement.
C19_StorageFailuresRewrapped ==
    /\ FailedCalls(calls) # {} =>
          result = SQLExecError(<<"DbRelationError: ",
                                  calls[Min(FailedCalls(calls))][1]>>)
    /\ result.thrown => result.class # "DbRelationError"

\* the creation of an index failed and its rollback has run
C19_Witness ==
    /\ Failed("create_index")
    /\ \E k \in FailedCalls(calls) : calls[k][1] = "index_create"
    /\ Dels(calls) # {}
    /\ result.what[1] = "DbRelationError: "

\* an INSERT failed on the update of the index
C19_WitnessInsert ==
    /\ Failed("insert")
    /\ \E k \in FailedCalls(calls) : calls[k][1] = "index_insert"

\* the positions in log of the calls that delete a handle, from an index
\* or from the table
HandleCalls(log) == {k \in 1..Len(log) : log[k][1] \in {"index_del", "del"}}

\* C20: in DELETE the matched handles are processed one after another, and
\* for each handle h index.del(h) is called on every index of the table
\* before table.del(h); table.del(h) is never called while some index of
\* the table has not yet been asked to delete h.
C20_IndexDelBeforeTableDel ==
    stmt.kind = "delete" =>
        /\ \A q \in 1..Len(calls) :
              calls[q][1] = "del" =>
                  \A i \in Range(get_index_names(S, stmt.tableName)) :
                      \E p \in 1..(q - 1) :
                          calls[p] = <<"index_del", stmt.tableName, i,
                                       calls[q][4], TRUE>>
        /\ \A p, r, q \in HandleCalls(calls) :
              (p < r /\ r < q /\ calls[p][4] = calls[q][4])
                  => calls[r][4] = calls[p][4]

\* a DELETE has removed two rows from a table with two indices
C20_Witness ==
    /\ stmt.kind = "delete" /\ ~result.thrown
    /\ Cardinality({k \in 1..Len(calls) : calls[k][1] = "del"}) = 2
    /\ Cardinality({k \in 1..Len(calls) : calls[k][1] = "index_del"}) = 4

\* the step of DROP TABLE that a call of its log belongs to: 1 the indices,
\* 2 the _indices rows, 3 the _columns rows, 4 the relation, 5 the _tables
\* row (0: the index names are read)
DropStep(c) ==
    CASE c[1] \in {"get_index", "index_drop"} -> 1
      [] c[1] \in {"select", "del"} /\ c[2] = IndicesName -> 2
      [] c[1] \in {"select", "del"} /\ c[2] = ColumnsName -> 3
      [] c[1] = "drop" -> 4
      [] c[1] \in {"select", "del"} /\ c[2] = TablesName -> 5
      [] OTHER -> 0

\* in state s nothing is left of what step n of DROP TABLE t removes
StepDone(s, n, t) ==
    CASE n = 1 -> \A i \in IndexNames : <<t, i>> \notin DOMAIN s.idx
      [] n = 2 -> RowsOf(s.indices, t) = {}
      [] n = 3 -> RowsOf(s.columns, t) = {}
      [] n = 4 -> t \notin s.phys
      [] OTHER -> TRUE

\* a call of the log that succeeded has its effect in state s
StillDone(s, c) ==
    CASE c[1] = "index_drop" -> <<c[2], c[3]>> \notin DOMAIN s.idx
      [] c[1] = "del" -> c[4] \notin DOMAIN RelOf(s, c[2])
      [] c[1] = "drop" -> c[2] \notin s.phys
      [] OTHER -> TRUE

\* C21: DROP TABLE T drops every physical index on T, then deletes the
\* _indices rows of T, then the _columns rows of T, then drops the
\* relation, then deletes the _tables row of T; no step starts before the
\* one before it has finished, and a failure at any step stops the
\* statement without undoing the earlier steps.
C21_DropTableStepsInOrder ==
    [][stmt'.kind = "drop_table" =>
          /\ \A p, q \in 1..Len(calls') :
                p < q => DropStep(calls'[p]) <= DropStep(calls'[q])
          /\ \A q \in 1..Len(calls'), n \in 1..4 :
                n < DropStep(calls'[q]) => StepDone(S', n, stmt'.name)
          /\ \A k \in FailedCalls(calls') : k = Len(calls')
          /\ FailedCalls(calls') # {} => result'.thrown
          /\ \A k \in 1..Len(calls') :
                /\ calls'[k][1] \notin {"insert", "create", "index_create",
                                        "index_insert"}
                /\ calls'[k][5] => StillDone(S', calls'[k])
          /\ ~result'.thrown =>
                /\ \A n \in 1..4 : StepDone(S', n, stmt'.name)
                /\ \E k \in 1..Len(calls') :
                      calls'[k][1] = "del" /\ calls'[k][2] = TablesName]_vars

\* the drop of the relation fails after the index was dropped and the
\* rows of _indices and _columns were deleted, and nothing is undone
C21_Witness ==
    /\ Failed("drop_table")
    /\ Did(calls, "index_drop", "t")
    /\ Did(calls, "del", IndicesName)
    /\ Did(calls, "del", ColumnsName)
    /\ calls[Len(calls)][1] = "drop"
    /\ "t" \in phys
    /\ RowsOf(columns, "t") = {}
    /\ RowsOf(tables, "t") # {}

\* the calls of the log that are failed deletions of a _columns row
ColumnDelFailed(log) ==
    {k \in FailedCalls(log) : log[k][1] = "del" /\ log[k][2] = ColumnsName}

\* the handles of the _columns rows the statement of the log inserted
ColumnsInserted(log) ==
    {log[k][4] : k \in {j \in 1..Len(log) :
        log[j][1] = "insert" /\ log[j][2] = ColumnsName /\ log[j][5]}}

\* the handles of the _columns rows the log has a del call for
ColumnsDelCalled(log) ==
    {log[k][4] : k \in {j \in 1..Len(log) :
        log[j][1] = "del" /\ log[j][2] = ColumnsName}}

\* C22: in the rollback of CREATE TABLE, when the deletion of an inserted
\* _columns row fails, the inserted _columns rows after it are not deleted
\* (no del is called for them and they stay in _columns), and the deletion
\* of the inserted _tables row is still attempted right after.
C22_ColumnsUndoStopsTablesUndoAttempted ==
    Failed("create_table") =>
        \A k \in ColumnDelFailed(calls) :
            /\ Len(calls) = k + 1
            /\ calls[k + 1][1] = "del" /\ calls[k + 1][2] = TablesName
            /\ \A j \in 1..(k - 1) :
                  calls[j][1] = "del" => calls[j][2] = ColumnsName /\ calls[j][5]
            /\ \A h \in ColumnsInserted(calls) :
                  \/ h \in ColumnsDelCalled(calls)
                  \/ h \in DOMAIN columns /\ columns[h].table_name = stmt.tableName

\* the deletion of the first of two inserted _columns rows fails: the
\* second row has no del call and is still there, the _tables row is gone
C22_Witness ==
    /\ Failed("create_table")
    /\ ColumnDelFailed(calls) # {}
    /\ \E h \in ColumnsInserted(calls) :
          h \notin ColumnsDelCalled(calls) /\ h \in DOMAIN columns
    /\ calls[Len(calls)][1] = "del" /\ calls[Len(calls)][5]

\* the columns an INSERT statement gives a value for
Valued(st) == {st.columns[n] : n \in 1..Len(st.values)}

\* the INSERT statement gives a value for a column the table does not have
Unlisted(s, st) ==
    \E c \in Valued(st) : c \notin Range(get_column_names(s, st.tableName))

\* the INSERT statement gives a value for a column of the table whose
\* declared type is neither INT nor TEXT
Untyped(s, st) ==
    \E k \in 1..Len(get_column_names(s, st.tableName)) :
        /\ get_column_names(s, st.tableName)[k] \in Valued(st)
        /\ get_column_attributes(s, st.tableName)[k] \notin {"INT", "TEXT"}

\* the exceptions of get_column_type and of the switch of insert
Rejected(res) ==
    /\ res.thrown
    /\ res.class = "SQLExecError"
    /\ res.what \in {<<"unkown column">>,
                     <<"don't know how to handle data type in INSERT">>}

\* C23: an INSERT that lists a column the table does not have, or a column
\* whose declared type is neither INT nor TEXT, fails, and it fails before
\* the table insert: no storage call is made, and the rows of the table,
\* the indices on it and the rest of the state are unchanged.
C23_RejectedInsertChangesNothing ==
    [][stmt'.kind = "insert" =>
          /\ Unlisted(S, stmt') \/ Untyped(S, stmt') => Rejected(result')
          /\ Rejected(result') =>
                /\ calls' = <<>>
                /\ UNCHANGED <<tables, columns, indices, phys, data, idx>>]_vars

\* an INSERT with a value for a column the table does not have has failed,
\* the table holding a row and carrying an index
C23_Witness ==
    /\ Failed("insert")
    /\ result.what = <<"unkown column">>
    /\ Unlisted(S, stmt)
    /\ DOMAIN data["t"] # {}
    /\ <<"t", "i">> \in DOMAIN idx

\* an INSERT with a value for the BOOLEAN column of _indices has failed
C23_WitnessType ==
    /\ Failed("insert")
    /\ result.what = <<"don't know how to handle data type in INSERT">>
    /\ Untyped(S, stmt)
    /\ indices # <<>>

\* relation r is relation q without the rows of the handles hs
Without(r, q, hs) ==
    /\ DOMAIN r = DOMAIN q \ hs
    /\ \A h \in DOMAIN r : r[h] = q[h]

\* C24: a successful DROP INDEX I ON T removes exactly the _indices rows
\* whose table_name is T and index_name is I and drops only that physical
\* index: the _indices rows and the physical objects of every other
\* index, on T or on another table, and all rows of _tables, _columns and
\* T are unchanged.
C24_DropIndexRemovesOnlyThatIndex ==
    [][stmt'.kind = "drop_index" /\ ~result'.thrown =>
          /\ Without(indices', indices,
                     IndexRows(S, stmt'.name, stmt'.indexName))
          /\ IndexRows(S', stmt'.name, stmt'.indexName) = {}
          /\ Without(idx', idx, {<<stmt'.name, stmt'.indexName>>})
          /\ UNCHANGED <<tables, columns, phys, data>>]_vars

\* index j on t has been dropped: index i on t, the index on u and the row
\* of t are in place
C24_Witness ==
    /\ stmt.kind = "drop_index" /\ ~result.thrown
    /\ stmt.name = "t" /\ stmt.indexName = "j"
    /\ Did(calls, "del", IndicesName)
    /\ IndexRows(S, "t", "i") # {} /\ <<"t", "i">> \in DOMAIN idx
    /\ IndexRows(S, "u", "i") # {} /\ <<"u", "i">> \in DOMAIN idx
    /\ DOMAIN data["t"] # {}
====
